---- MODULE Spec2Model ----
(***************************************************************************)
(* Whatstutor AI: the webhook, the message orchestrator (MessageHandler),  *)
(* the session registry (DialogflowService.sessions) and the adapters the  *)
(* orchestrator drives, as a state machine.  One step of the machine is    *)
(* one turn of the Node.js event loop: the code that runs from the         *)
(* settling of one awaited promise up to the next await.                   *)
(*                                                                         *)
(* Strings are sequences of tokens (a token is a character or a fixed      *)
(* piece of text); concatenation is \o and the empty string is << >>.      *)
(***************************************************************************)
EXTENDS Integers, Sequences, FiniteSets, TLC

(***************************************************************************)
(* Bounds of the model.                                                    *)
(***************************************************************************)
MaxPasses == 2          \* webhook deliveries whose passes may overlap
MaxUuid   == 3          \* identifiers uuidv4 hands out before the model stops
MaxRetries == 3         \* the largest retries argument of sendMessageWithRetry

Passes == 1..MaxPasses
Users  == {"u1", "u2"}
MessageSids == {"M1", "M2"}

(***************************************************************************)
(* Characters.  \w of a JavaScript regular expression without the u flag   *)
(* is [A-Za-z0-9_]; the accented letters are single code units outside it. *)
(***************************************************************************)
AsciiLower == <<"a","b","c","d","e","f","g","h","i","j","k","l","m",
                "n","o","p","q","r","s","t","u","v","w","x","y","z">>
AsciiUpper == <<"A","B","C","D","E","F","G","H","I","J","K","L","M",
                "N","O","P","Q","R","S","T","U","V","W","X","Y","Z">>
AccentLower == <<"a_acute","e_acute","i_acute","o_acute","u_acute">>
AccentUpper == <<"A_ACUTE","E_ACUTE","I_ACUTE","O_ACUTE","U_ACUTE">>
Digits == <<"0","1","2","3","4","5","6","7","8","9">>

Range(s) == {s[i] : i \in DOMAIN s}

IndexOf(s, c) == CHOOSE i \in DOMAIN s : s[i] = c

IsWordChar(c) == c \in Range(AsciiLower) \cup Range(AsciiUpper) \cup Range(Digits) \cup {"_"}

\* Canonicalize of the i flag: the upper-case form of the code unit
Canonicalize(c) ==
    IF c \in Range(AsciiLower) THEN AsciiUpper[IndexOf(AsciiLower, c)]
    ELSE IF c \in Range(AccentLower) THEN AccentUpper[IndexOf(AccentLower, c)]
    ELSE c

\* parseInt on a non-empty string of decimal digits
RECURSIVE ParseInt(_)
ParseInt(s) ==
    IF s = << >> THEN 0
    ELSE 10 * ParseInt(SubSeq(s, 1, Len(s) - 1)) + (IndexOf(Digits, s[Len(s)]) - 1)

(***************************************************************************)
(* MessageHandler.detectLanguage                                           *)
(*   /\b(hola|gracias|por favor|buenos|días|cómo|está|qué|sí|no)\b/i       *)
(***************************************************************************)
spanishPatterns ==
    { <<"h","o","l","a">>,
      <<"g","r","a","c","i","a","s">>,
      <<"p","o","r"," ","f","a","v","o","r">>,
      <<"b","u","e","n","o","s">>,
      <<"d","i_acute","a","s">>,
      <<"c","o_acute","m","o">>,
      <<"e","s","t","a_acute">>,
      <<"q","u","e_acute">>,
      <<"s","i_acute">>,
      <<"n","o">> }

\* \b at the gap before position i (1 .. Len(text)+1)
WordBoundary(text, i) ==
    LET before == i > 1 /\ IsWordChar(text[i - 1])
        after  == i <= Len(text) /\ IsWordChar(text[i])
    IN  before # after

MatchesAt(text, i, w) ==
    /\ i + Len(w) - 1 <= Len(text)
    /\ \A k \in 1..Len(w) : Canonicalize(text[i + k - 1]) = Canonicalize(w[k])
    /\ WordBoundary(text, i)
    /\ WordBoundary(text, i + Len(w))

RegexTest(text) ==
    \E w \in spanishPatterns : \E i \in 1..Len(text) : MatchesAt(text, i, w)

detectLanguage(text) == IF RegexTest(text) THEN "es" ELSE "en"

(***************************************************************************)
(* MessageHandler.mapLanguageCode                                          *)
(***************************************************************************)
mapLanguageCode(languageCode) ==
    CASE languageCode = "en"    -> "en-US"
      [] languageCode = "en-US" -> "en-US"
      [] languageCode = "es"    -> "es-ES"
      [] languageCode = "es-ES" -> "es-ES"
      [] languageCode = "es-US" -> "es-US"
      [] OTHER                  -> "en-US"

(***************************************************************************)
(* Errors (utils/errorHandler.js).  Every AppError carries isOperational = *)
(* TRUE; a built-in TypeError has no such property (falsy).                *)
(***************************************************************************)
AppError(name, message, statusCode) ==
    [name |-> name, message |-> message, statusCode |-> statusCode, isOperational |-> TRUE]

ValidationError(message)      == AppError("ValidationError", message, 400)
AudioProcessingError(message) == AppError("AudioProcessingError", message, 422)
WhatsAppError(message)        == AppError("WhatsAppError", message, 502)
DialogflowError(message)      == AppError("DialogflowError", message, 503)

\* what reading .message of a null or undefined rejection value throws
TypeError ==
    [name |-> "TypeError", message |-> <<"Cannot read properties of undefined (reading 'message')">>,
     statusCode |-> 0, isOperational |-> FALSE]

NoError == [name |-> "", message |-> << >>, statusCode |-> 0, isOperational |-> FALSE]

(***************************************************************************)
(* What an awaited third-party promise can settle to.  A rejection value   *)
(* is an Error with a message, or (any value may be thrown) a nullish one; *)
(* the promises of Node's own fs module reject with an Error only.         *)
(***************************************************************************)
SdkRejections == { [nullish |-> FALSE, message |-> <<"ETIMEDOUT">>],
                   [nullish |-> TRUE,  message |-> << >>] }
FsRejections  == { [nullish |-> FALSE, message |-> <<"EACCES">>] }

\* catch (error) { logger.error(.., { error: error.message }); throw wrapped }
\* with wrapped the new Kind(prefix + error.message)
WrapError(e, wrapped) ==
    IF e.nullish THEN TypeError ELSE wrapped

(***************************************************************************)
(* Configuration (config/config.js).  Sizes are in bytes, confidences in   *)
(* hundredths.                                                             *)
(***************************************************************************)
maxAudioSize == 16777216
sttLanguage == "en-US"
ConfidenceThreshold == 70
AlternativeLanguage == "es-ES"

AudioSizes == {maxAudioSize, maxAudioSize + 1}

(***************************************************************************)
(* AudioProcessor.validateAudioSize: the error it throws, or NoError       *)
(***************************************************************************)
\* the size test with >= in place of >
validateAudioSize_inclusive(size) ==
    IF size >= maxAudioSize
    THEN AudioProcessingError(<<"Archivo de audio demasiado grande. El tamano maximo es ", "16", "MB">>)
    ELSE NoError

validateAudioSize(size) ==
    IF size > maxAudioSize
    THEN AudioProcessingError(<<"Archivo de audio demasiado grande. El tamano maximo es ", "16", "MB">>)
    ELSE NoError

(***************************************************************************)
(* Inbound messages (the urlencoded body of a webhook POST).  Body is a    *)
(* string, absent, or (a repeated Body field) an array; NumMedia is a      *)
(* string of digits, empty when absent.                                    *)
(***************************************************************************)
StringBody(val) == [type |-> "string", val |-> val]
NoBody    == [type |-> "undefined", val |-> << >>]
ArrayBody == [type |-> "array", val |-> << >>]

Hello == <<"H","e","l","l","o">>
Hola  == <<"H","O","L","A">>

Truthy(body) == body.type = "array" \/ (body.type = "string" /\ body.val # << >>)

MediaUrl == "https://media/a.ogg"

Message(from, body, numMedia, sid) ==
    [From |-> from, Body |-> body, NumMedia |-> numMedia,
     MediaUrl0 |-> IF numMedia # << >> /\ ParseInt(numMedia) > 0 THEN MediaUrl ELSE "",
     MessageSid |-> sid]

NoMessage == Message("", NoBody, << >>, "")

Bodies == {NoBody, StringBody(<< >>), StringBody(Hello), StringBody(Hola), ArrayBody}

\* messages without an attachment, and voice notes (with or without a caption)
Messages ==
    {Message(f, b, n, "M1") : f \in Users, b \in Bodies, n \in {<< >>, <<"0">>}} \cup
    {Message(f, b, <<"1">>, s) : f \in Users, b \in {StringBody(<< >>), StringBody(Hello)}, s \in MessageSids}

(***************************************************************************)
(* DialogflowService: the session registry and the reply text.             *)
(* sessions maps a user to a session id; 0 stands for "no entry".          *)
(***************************************************************************)
\* uuidv4(): the n-th identifier generated is a value never generated before
uuidv4(n) == n

\* getSessionId without the has() test
getSessionId_noCheck(sess, userId, fresh) ==
    [sessions |-> [sess EXCEPT ![userId] = fresh], sessionId |-> fresh, created |-> TRUE]

\* getSessionId(userId) on the Map sess, with fresh the value uuidv4() would return
getSessionId(sess, userId, fresh) ==
    LET created == sess[userId] = 0
        after   == IF created THEN [sess EXCEPT ![userId] = fresh] ELSE sess
    IN  [sessions |-> after, sessionId |-> after[userId], created |-> created]

projectId == "project"
location  == "global"
agentId   == "agent"

\* a session path that leaves the session id out
getSessionPath_fixed(sessionId) ==
    <<"projects/", projectId, "/locations/", location, "/agents/", agentId, "/sessions/", "default">>

getSessionPath(sessionId) ==
    <<"projects/", projectId, "/locations/", location, "/agents/", agentId, "/sessions/", ToString(sessionId)>>

\* A response message of the agent: a text segment (text.text is a list of
\* strings) or a segment of another type (payload, output audio, ...).
TextSegment(lines) == [isText |-> TRUE, lines |-> lines]
OtherSegment       == [isText |-> FALSE, lines |-> << >>]

RECURSIVE Flat(_)
Flat(segments) ==
    IF segments = << >> THEN << >>
    ELSE (IF Head(segments).isText THEN Head(segments).lines ELSE << >>) \o Flat(Tail(segments))

\* Array.prototype.join('\n') of a list of strings
RECURSIVE Join(_)
Join(lines) ==
    IF lines = << >> THEN << >>
    ELSE IF Len(lines) = 1 THEN Head(lines)
    ELSE Head(lines) \o <<"\n">> \o Join(Tail(lines))

FallbackNoMessages == <<"I'm sorry, I didn't understand that. Could you rephrase?">>
FallbackNoText     == <<"I'm here to help you practice English!">>

\* extractResponseText with the first fallback in both places
extractResponseText_oneFallback(responseMessages) ==
    IF responseMessages = << >> THEN FallbackNoMessages
    ELSE LET joined == Join(Flat(responseMessages))
         IN  IF joined # << >> THEN joined ELSE FallbackNoMessages

extractResponseText(responseMessages) ==
    IF responseMessages = << >> THEN FallbackNoMessages
    ELSE LET joined == Join(Flat(responseMessages))
         IN  IF joined # << >> THEN joined ELSE FallbackNoText

AgentResponses ==
    { << >>,
      <<TextSegment(<< <<"Hi there!">> >>), OtherSegment, TextSegment(<< <<"How are you?">> >>)>>,
      <<OtherSegment>> }

(***************************************************************************)
(* SpeechToTextService.transcribe: what it makes of a recognize response.  *)
(* A response is a list of results, each with a transcript, a language     *)
(* code ("" when the service reports none) and a confidence.               *)
(***************************************************************************)
RecognizeResult(transcript, languageCode, confidence) ==
    [transcript |-> transcript, languageCode |-> languageCode, confidence |-> confidence]

RecognizeResponses ==
    { << >> } \cup
    { <<RecognizeResult(<<"good morning">>, l, c)>> : l \in {"", "es-ES"}, c \in {60, 90} }

Transcription(text, language, confidence) ==
    [text |-> text, language |-> language, confidence |-> confidence]

NoTranscription == Transcription(<< >>, "", 0)

CouldNotTranscribe ==
    AudioProcessingError(<<"Could not transcribe audio. Please speak clearly and try again.">>)

\* result.alternatives[0].transcript of every result, joined by '\n'
Transcripts(results) == [i \in DOMAIN results |-> results[i].transcript]

\* the object transcribe returns for a non-empty list of results
transcribe(results, languageCode) ==
    Transcription(Join(Transcripts(results)),
                  IF results[1].languageCode # "" THEN results[1].languageCode ELSE languageCode,
                  results[1].confidence)

(***************************************************************************)
(* File names in the temp directory                                        *)
(***************************************************************************)
AudioFile(messageSid)    == <<messageSid, ".ogg">>
ResponseFile(messageSid) == <<"response_", messageSid, ".ogg">>

(***************************************************************************)
(* State.                                                                  *)
(*   passes     one record per webhook delivery: the request, the HTTP     *)
(*              response, and the processing pass it started (where it is  *)
(*              suspended, its live locals, what it has sent and called)   *)
(*              queryResult holds the response messages the agent gave to  *)
(*              the pass, for as long as the reply text made of them lives *)
(*   sessions   DialogflowService.sessions                                 *)
(*   generated  how many identifiers uuidv4 has produced                   *)
(*   temp       the files in the temp directory                            *)
(*   retry      the one call of WhatsAppClient.sendMessageWithRetry in     *)
(*              progress, with the deliveries it attempted, the errors     *)
(*              they failed with and the delays it waited                  *)
(***************************************************************************)
VARIABLES passes, sessions, generated, temp, retry

vars == <<passes, sessions, generated, temp, retry>>

NoHttp == [status |-> 0, body |-> << >>]

NoPass ==
    [pc |-> "idle", msg |-> NoMessage, route |-> "", http |-> NoHttp,
     audioBuffer |-> 0, result |-> NoTranscription, alternativeResult |-> NoTranscription,
     transcription |-> NoTranscription,
     queryResult |-> << >>, responseText |-> << >>, sessionId |-> 0, error |-> NoError,
     settled |-> "none", sends |-> << >>, calls |-> << >>]

Send(kind, to, body) == [kind |-> kind, to |-> to, body |-> body, status |-> "pending"]

Call(op, text, lang, file, session) ==
    [op |-> op, text |-> text, lang |-> lang, file |-> file, session |-> session]

\* whatsappClient.sendTextMessage(to, body) up to its await of messages.create
sendTextMessage(pass, kind, to, body, pc) ==
    [pass EXCEPT !.sends = Append(@, Send(kind, to, body)), !.pc = pc]

\* the pending send of the pass settles
SendSettled(pass, ok) ==
    [pass EXCEPT !.sends[Len(pass.sends)].status = IF ok THEN "sent" ELSE "failed"]

\* leaving handleVoiceMessage / handleTextMessage: their locals are gone
DropLocals(pass) ==
    [pass EXCEPT !.audioBuffer = 0, !.result = NoTranscription, !.alternativeResult = NoTranscription,
                 !.transcription = NoTranscription, !.queryResult = << >>, !.responseText = << >>]

(***************************************************************************)
(* MessageHandler.sendErrorMessage                                         *)
(***************************************************************************)
GenericApology == <<"X I'm having trouble processing your message. Please try again later.">>

\* errorMessage without the isOperational test
errorMessage_always(error) == <<"X ">> \o error.message

errorMessage(error) ==
    IF error.isOperational THEN <<"X ">> \o error.message ELSE GenericApology

sendErrorMessage(pass, to, error) ==
    sendTextMessage(pass, "apology", to, errorMessage(error), "sendError")

\* sendErrorMessage without its catch: a failed apology send escapes
sendErrorMessageSettled_rethrow(pass, ok) ==
    [SendSettled(pass, ok) EXCEPT !.pc = "done", !.settled = IF ok THEN "resolved" ELSE "rejected"]

\* sendErrorMessage sending the apology again when the send failed
sendErrorMessageSettled_retry(pass, ok) ==
    IF ok THEN [SendSettled(pass, ok) EXCEPT !.pc = "done", !.settled = "resolved"]
    ELSE sendTextMessage(SendSettled(pass, ok), "apology", pass.msg.From,
                         pass.sends[Len(pass.sends)].body, "sendError")

\* try { await sendTextMessage } catch (sendError) { logger.error }: how the
\* promise of sendErrorMessage, and with it that of handleIncomingMessage, settles
sendErrorMessageSettled(pass, ok) ==
    [SendSettled(pass, ok) EXCEPT !.pc = "done", !.settled = "resolved"]

\* catch (error) of handleIncomingMessage
catchError(pass, error) ==
    sendErrorMessage([DropLocals(pass) EXCEPT !.error = error], pass.msg.From, error)

(***************************************************************************)
(* DialogflowService.detectIntent up to its await of client.detectIntent:  *)
(* the pass, the registry and whether uuidv4 was called                    *)
(***************************************************************************)
\* detectIntent looking the sender up in a registry read before the sender's
\* mapping was made
detectIntent_stale(pass, text, userId, languageCode, sess, fresh) ==
    LET g == getSessionId([sess EXCEPT ![userId] = 0], userId, fresh)
    IN  [pass |-> [pass EXCEPT !.sessionId = g.sessionId,
                               !.calls = Append(@, Call("detectIntent", text, languageCode, << >>,
                                                        getSessionPath(g.sessionId))),
                               !.pc = "detectIntent"],
         sessions |-> g.sessions,
         created |-> g.created]

\* detectIntent using a fresh session id without storing it in the registry
detectIntent_unregistered(pass, text, userId, languageCode, sess, fresh) ==
    LET g == getSessionId(sess, userId, fresh)
    IN  [pass |-> [pass EXCEPT !.sessionId = g.sessionId,
                               !.calls = Append(@, Call("detectIntent", text, languageCode, << >>,
                                                        getSessionPath(g.sessionId))),
                               !.pc = "detectIntent"],
         sessions |-> sess,
         created |-> g.created]

detectIntent(pass, text, userId, languageCode, sess, fresh) ==
    LET g == getSessionId(sess, userId, fresh)
    IN  [pass |-> [pass EXCEPT !.sessionId = g.sessionId,
                               !.calls = Append(@, Call("detectIntent", text, languageCode, << >>,
                                                        getSessionPath(g.sessionId))),
                               !.pc = "detectIntent"],
         sessions |-> g.sessions,
         created |-> g.created]

(***************************************************************************)
(* MessageHandler.handleIncomingMessage up to its first await              *)
(***************************************************************************)
\* the classification testing Body before NumMedia
Classify_bodyFirst(msg) ==
    IF Truthy(msg.Body) THEN "text"
    ELSE IF msg.NumMedia # << >> /\ ParseInt(msg.NumMedia) > 0 THEN "voice"
    ELSE "invalid"

\* the classification without the final validation branch
Classify_noValidation(msg) ==
    IF msg.NumMedia # << >> /\ ParseInt(msg.NumMedia) > 0 THEN "voice" ELSE "text"

Classify(msg) ==
    IF msg.NumMedia # << >> /\ ParseInt(msg.NumMedia) > 0 THEN "voice"
    ELSE IF Truthy(msg.Body) THEN "text"
    ELSE "invalid"

\* handleVoiceMessage -> processVoiceNote -> downloadAudio -> await axios
handleVoiceMessage(pass) ==
    [pass EXCEPT !.calls = Append(@, Call("axios", << >>, "", <<pass.msg.MediaUrl0>>, << >>)),
                 !.pc = "axios"]

\* handleTextMessage leaving the language to detectIntent's default
handleTextMessage_defaultLanguage(pass, sess, fresh) ==
    detectIntent(pass, pass.msg.Body.val, pass.msg.From, "en", sess, fresh)

handleTextMessage(pass, sess, fresh) ==
    detectIntent(pass, pass.msg.Body.val, pass.msg.From, detectLanguage(pass.msg.Body.val), sess, fresh)

handleIncomingMessage(msg, sess, fresh) ==
    LET route == Classify(msg)
        pass  == [NoPass EXCEPT !.msg = msg, !.route = route, !.settled = "pending"]
    IN  CASE route = "voice" -> [pass |-> handleVoiceMessage(pass), sessions |-> sess, created |-> FALSE]
          [] route = "text"  -> handleTextMessage(pass, sess, fresh)
          [] OTHER -> [pass |-> catchError(pass, ValidationError(<<"Invalid message format">>)),
                       sessions |-> sess, created |-> FALSE]

\* catch (error) of sendTextMessage
SendFailed(e) == WrapError(e, WhatsAppError(<<"Failed to send message: ">> \o e.message))

(***************************************************************************)
(* WhatsAppClient.sendMessageWithRetry(to, message, retries = 3)           *)
(*   for (let attempt = 1; attempt <= retries; attempt++)                  *)
(*     try { return await this.sendTextMessage(to, message) }              *)
(*     catch (error) { if (attempt === retries) throw error;               *)
(*                     await new Promise(r => setTimeout(r, 1000*attempt))}*)
(***************************************************************************)
DefaultRetries == 3
BackoffUnit == 1000

\* the retries argument: a number, or left out
RetriesArgs == {[given |-> TRUE, val |-> n] : n \in 0..MaxRetries} \cup {[given |-> FALSE, val |-> 0]}

NoRetry ==
    [pc |-> "idle", to |-> "", message |-> << >>, retries |-> 0, attempt |-> 0,
     sends |-> << >>, errors |-> << >>, waits |-> << >>,
     settled |-> "none", value |-> 0, error |-> NoError]

\* a test that never finds the last attempt
lastAttempt_never(attempt, retries) == FALSE

\* attempt === retries
lastAttempt(attempt, retries) == attempt = retries

\* the delay of the setTimeout after a failed attempt
backoffDelay(attempt) == BackoffUnit * attempt

\* the head of the for loop: the next attempt is started, or the loop is left
\* and the function returns undefined
loopHead(r, attempt) ==
    IF attempt <= r.retries
    THEN sendTextMessage([r EXCEPT !.attempt = attempt], "message", r.to, r.message, "attempt")
    ELSE [r EXCEPT !.attempt = attempt, !.pc = "done", !.settled = "resolved", !.value = 0]

sendMessageWithRetry(to, message, arg) ==
    loopHead([NoRetry EXCEPT !.to = to, !.message = message, !.settled = "pending",
                             !.retries = IF arg.given THEN arg.val ELSE DefaultRetries], 1)

SendMessageWithRetry(to, message, arg) ==
    /\ retry.pc = "idle"
    /\ retry' = sendMessageWithRetry(to, message, arg)
    /\ UNCHANGED <<passes, sessions, generated, temp>>

\* messages.create of the current attempt settles: its response (here the
\* number of the attempt that created it) is returned, or the error thrown by
\* sendTextMessage is caught
AttemptSettled ==
    /\ retry.pc = "attempt"
    /\ \/ retry' = [SendSettled(retry, TRUE) EXCEPT !.pc = "done", !.settled = "resolved",
                                                   !.value = retry.attempt]
       \/ \E e \in SdkRejections :
             LET failed == [SendSettled(retry, FALSE) EXCEPT !.errors = Append(@, SendFailed(e))]
             IN  retry' = IF lastAttempt(retry.attempt, retry.retries)
                          THEN [failed EXCEPT !.pc = "done", !.settled = "rejected", !.error = SendFailed(e)]
                          ELSE [failed EXCEPT !.pc = "wait", !.waits = Append(@, backoffDelay(retry.attempt))]
    /\ UNCHANGED <<passes, sessions, generated, temp>>

\* the timer fires: attempt++ and back to the head of the loop
TimerFired ==
    /\ retry.pc = "wait"
    /\ retry' = loopHead(retry, retry.attempt + 1)
    /\ UNCHANGED <<passes, sessions, generated, temp>>

\* the caller has the outcome; the record is free for the next call
RetryReturned ==
    /\ retry.pc = "done"
    /\ retry' = NoRetry
    /\ UNCHANGED <<passes, sessions, generated, temp>>

(***************************************************************************)
(* routes/webhook.js  router.post('/') with asyncHandler and errorHandler  *)
(***************************************************************************)
\* errorHandler(err, req, res): res.status(statusCode).json({success: false, message})
errorHandler(err) ==
    [status |-> IF err.statusCode # 0 THEN err.statusCode ELSE 500,
     body   |-> IF err.isOperational THEN err.message ELSE <<"Error Interno del Servidor">>]

NotAFunction ==
    [name |-> "TypeError", message |-> <<"req.body.Body?.substring is not a function">>,
     statusCode |-> 0, isOperational |-> FALSE]

Init ==
    /\ passes = [p \in Passes |-> NoPass]
    /\ sessions = [u \in Users |-> 0]
    /\ generated = 0
    /\ temp = {}
    /\ retry = NoRetry

\* The k-th delivery takes record k.  The handler logs Body?.substring(0, 50),
\* starts the pass without awaiting it, and answers.
WebhookPost(p, msg) ==
    /\ passes[p].pc = "idle"
    /\ \A q \in Passes : q < p => passes[q].pc # "idle"
    /\ IF msg.Body.type \notin {"string", "undefined"}
       THEN /\ passes' = [passes EXCEPT ![p] = [NoPass EXCEPT !.pc = "nopass", !.msg = msg,
                                                              !.http = errorHandler(NotAFunction)]]
            /\ UNCHANGED <<sessions, generated, temp, retry>>
       ELSE LET r == handleIncomingMessage(msg, sessions, uuidv4(generated + 1))
            IN  /\ r.created => generated < MaxUuid
                /\ passes' = [passes EXCEPT ![p] = [r.pass EXCEPT !.http = [status |-> 200, body |-> <<"OK">>]]]
                /\ sessions' = r.sessions
                /\ generated' = IF r.created THEN generated + 1 ELSE generated
                /\ UNCHANGED <<temp, retry>>

\* the pass of record p moves on, touching nothing else
Continue(p, pass) ==
    /\ passes' = [passes EXCEPT ![p] = pass]
    /\ UNCHANGED <<sessions, generated, temp, retry>>

\* the pass of record p moves on into detectIntent
ContinueWith(p, r) ==
    /\ r.created => generated < MaxUuid
    /\ passes' = [passes EXCEPT ![p] = r.pass]
    /\ sessions' = r.sessions
    /\ generated' = IF r.created THEN generated + 1 ELSE generated
    /\ UNCHANGED <<temp, retry>>

(***************************************************************************)
(* AudioProcessor.downloadAudio / processVoiceNote                         *)
(***************************************************************************)
DownloadFailed(e) == WrapError(e, AudioProcessingError(<<"Error al descargar audio: ">> \o e.message))

\* await axios(...) settles; then fs.writeFile is awaited
AxiosSettled(p) ==
    LET pass == passes[p]
    IN  /\ pass.pc = "axios"
        /\ \/ \E size \in AudioSizes :
                Continue(p, [pass EXCEPT !.audioBuffer = size,
                                         !.calls = Append(@, Call("writeFile", << >>, "", AudioFile(pass.msg.MessageSid), << >>)),
                                         !.pc = "writeFile"])
           \/ \E e \in SdkRejections : Continue(p, catchError(pass, DownloadFailed(e)))

\* speechToText.transcribe(audioBuffer, languageCode) up to its await of recognize
recognize(pass, languageCode, pc) ==
    [pass EXCEPT !.calls = Append(@, Call("recognize", << >>, languageCode, << >>, << >>)), !.pc = pc]

\* a download that keeps the recording only if its size is valid
WriteFileSettled_validFilesOnly(p) ==
    LET pass == passes[p]
        tooLarge == validateAudioSize(pass.audioBuffer)
    IN  /\ pass.pc = "writeFile"
        /\ \/ /\ temp' = IF tooLarge # NoError THEN temp ELSE temp \cup {AudioFile(pass.msg.MessageSid)}
              /\ passes' = [passes EXCEPT ![p] =
                    IF tooLarge # NoError THEN catchError(pass, tooLarge)
                    ELSE recognize(pass, sttLanguage, "recognize1")]
              /\ UNCHANGED <<sessions, generated, retry>>
           \/ \E e \in FsRejections : Continue(p, catchError(pass, DownloadFailed(e)))

\* await fs.writeFile settles; downloadAudio returns, processVoiceNote validates
\* the size, handleVoiceMessage starts the transcription
WriteFileSettled(p) ==
    LET pass == passes[p]
        tooLarge == validateAudioSize(pass.audioBuffer)
    IN  /\ pass.pc = "writeFile"
        /\ \/ /\ temp' = temp \cup {AudioFile(pass.msg.MessageSid)}
              /\ passes' = [passes EXCEPT ![p] =
                    IF tooLarge # NoError THEN catchError(pass, tooLarge)
                    ELSE recognize(pass, sttLanguage, "recognize1")]
              /\ UNCHANGED <<sessions, generated, retry>>
           \/ \E e \in FsRejections : Continue(p, catchError(pass, DownloadFailed(e)))

(***************************************************************************)
(* SpeechToTextService.transcribeWithLanguageDetection                     *)
(***************************************************************************)
TranscribeFailed(e) == WrapError(e, AudioProcessingError(<<"Failed to transcribe audio: ">> \o e.message))

needsAlternative(result) == result.confidence < ConfidenceThreshold

\* the comparison with >= in place of >
chooseTranscription_orEqual(result, alternativeResult) ==
    IF alternativeResult.confidence >= result.confidence THEN alternativeResult ELSE result

chooseTranscription(result, alternativeResult) ==
    IF alternativeResult.confidence > result.confidence THEN alternativeResult ELSE result

confirmationMessage(text) == <<"I heard: \"">> \o text \o <<"\"\n\nLet me respond...">>

\* handleVoiceMessage once the transcription is there: send the confirmation
confirm(pass, transcription) ==
    sendTextMessage([pass EXCEPT !.result = NoTranscription, !.alternativeResult = NoTranscription,
                                 !.transcription = transcription],
                    "confirm", pass.msg.From, confirmationMessage(transcription.text), "sendConfirm")

\* the first recognize settles
Recognize1Settled(p) ==
    LET pass == passes[p]
    IN  /\ pass.pc = "recognize1"
        /\ \/ \E results \in RecognizeResponses :
                IF results = << >> THEN Continue(p, catchError(pass, CouldNotTranscribe))
                ELSE LET result == transcribe(results, sttLanguage)
                     IN  IF needsAlternative(result)
                         THEN Continue(p, recognize([pass EXCEPT !.result = result], AlternativeLanguage, "recognize2"))
                         ELSE Continue(p, confirm(pass, result))
           \/ \E e \in SdkRejections : Continue(p, catchError(pass, TranscribeFailed(e)))

\* a language detection that falls back on the first result when the second
\* transcription fails
Recognize2Settled_fallback(p) ==
    LET pass == passes[p]
    IN  /\ pass.pc = "recognize2"
        /\ \/ \E results \in RecognizeResponses :
                IF results = << >> THEN Continue(p, confirm(pass, pass.result))
                ELSE Continue(p, [pass EXCEPT !.alternativeResult = transcribe(results, AlternativeLanguage),
                                              !.pc = "compare"])
           \/ \E e \in SdkRejections : Continue(p, confirm(pass, pass.result))

\* the second recognize (alternative language) settles; transcribe returns
\* its result to transcribeWithLanguageDetection, which awaits it
Recognize2Settled(p) ==
    LET pass == passes[p]
    IN  /\ pass.pc = "recognize2"
        /\ \/ \E results \in RecognizeResponses :
                IF results = << >> THEN Continue(p, catchError(pass, CouldNotTranscribe))
                ELSE Continue(p, [pass EXCEPT !.alternativeResult = transcribe(results, AlternativeLanguage),
                                              !.pc = "compare"])
           \/ \E e \in SdkRejections : Continue(p, catchError(pass, TranscribeFailed(e)))

\* await this.transcribe(audioBuffer, 'es-ES') settles: the two results are
\* compared, one is returned and handleVoiceMessage confirms it
Transcribe2Settled(p) ==
    LET pass == passes[p]
    IN  /\ pass.pc = "compare"
        /\ Continue(p, confirm(pass, chooseTranscription(pass.result, pass.alternativeResult)))

(***************************************************************************)
(* MessageHandler.handleVoiceMessage / handleTextMessage, after each await *)
(***************************************************************************)
\* the confirmation send with its failure swallowed: the pass goes on regardless
ConfirmSendSettled_swallow(p) ==
    LET pass == passes[p]
    IN  /\ pass.pc = "sendConfirm"
        /\ \E ok \in BOOLEAN :
              ContinueWith(p, detectIntent(SendSettled(pass, ok), pass.transcription.text, pass.msg.From,
                                           pass.transcription.language, sessions, uuidv4(generated + 1)))

\* the intent detection given the body of the message and the language of
\* the lexical heuristic, as on the text path
ConfirmSendSettled_body(p) ==
    LET pass == passes[p]
    IN  /\ pass.pc = "sendConfirm"
        /\ \/ ContinueWith(p, detectIntent(SendSettled(pass, TRUE), pass.msg.Body.val, pass.msg.From,
                                           detectLanguage(pass.msg.Body.val), sessions, uuidv4(generated + 1)))
           \/ \E e \in SdkRejections : Continue(p, catchError(SendSettled(pass, FALSE), SendFailed(e)))

\* the confirmation send settles; then detectIntent with the transcription
ConfirmSendSettled(p) ==
    LET pass == passes[p]
    IN  /\ pass.pc = "sendConfirm"
        /\ \/ ContinueWith(p, detectIntent(SendSettled(pass, TRUE), pass.transcription.text, pass.msg.From,
                                           pass.transcription.language, sessions, uuidv4(generated + 1)))
           \/ \E e \in SdkRejections : Continue(p, catchError(SendSettled(pass, FALSE), SendFailed(e)))

IntentFailed(e) == WrapError(e, DialogflowError(<<"Failed to process with AI: ">> \o e.message))

\* a reply addressed to the sender of the first delivery, as if the handler
\* kept the sender in a field shared by the passes
sendReply_shared(pass) ==
    sendTextMessage(pass, "reply", passes[1].msg.From, pass.responseText, "sendReply")

sendReply(pass) ==
    sendTextMessage(pass, "reply", pass.msg.From, pass.responseText, "sendReply")

\* textToSpeech.synthesizeToFile up to the await of synthesizeSpeech
synthesizeToFile(pass, text, languageCode) ==
    [pass EXCEPT !.calls = Append(@, Call("synthesizeSpeech", text, languageCode, << >>, << >>)),
                 !.pc = "synthesize"]

\* detectIntent taking the sender's mapping back out when the agent call fails
DetectIntentSettled_rollback(p) ==
    LET pass == passes[p]
    IN  /\ pass.pc = "detectIntent"
        /\ \/ \E responseMessages \in AgentResponses :
                LET got == [pass EXCEPT !.queryResult = responseMessages,
                                        !.responseText = extractResponseText(responseMessages)]
                IN  IF pass.route = "text"
                    THEN Continue(p, sendReply(got))
                    ELSE Continue(p, synthesizeToFile(got, got.responseText,
                                                      mapLanguageCode(pass.transcription.language)))
           \/ \E e \in SdkRejections :
                /\ passes' = [passes EXCEPT ![p] = catchError(pass, IntentFailed(e))]
                /\ sessions' = [sessions EXCEPT ![pass.msg.From] = 0]
                /\ UNCHANGED <<generated, temp, retry>>

\* client.detectIntent settles
DetectIntentSettled(p) ==
    LET pass == passes[p]
    IN  /\ pass.pc = "detectIntent"
        /\ \/ \E responseMessages \in AgentResponses :
                LET got == [pass EXCEPT !.queryResult = responseMessages,
                                        !.responseText = extractResponseText(responseMessages)]
                IN  IF pass.route = "text"
                    THEN Continue(p, sendReply(got))
                    ELSE Continue(p, synthesizeToFile(got, got.responseText,
                                                      mapLanguageCode(pass.transcription.language)))
           \/ \E e \in SdkRejections : Continue(p, catchError(pass, IntentFailed(e)))

SynthesisFailed(e) == WrapError(e, AudioProcessingError(<<"Error al generar voz: ">> \o e.message))

\* synthesizeSpeech settles; then saveAudioFile awaits fs.writeFile
SynthesizeSettled(p) ==
    LET pass == passes[p]
    IN  /\ pass.pc = "synthesize"
        /\ \/ Continue(p, [pass EXCEPT !.calls = Append(@, Call("writeFile", << >>, "", ResponseFile(pass.msg.MessageSid), << >>)),
                                       !.pc = "saveAudio"])
           \/ \E e \in SdkRejections : Continue(p, catchError(pass, SynthesisFailed(e)))

SaveFailed == AudioProcessingError(<<"Error al guardar archivo de audio">>)

\* fs.writeFile of the synthesized audio settles; then the reply is sent as text
SaveAudioSettled(p) ==
    LET pass == passes[p]
    IN  /\ pass.pc = "saveAudio"
        /\ \/ /\ temp' = temp \cup {ResponseFile(pass.msg.MessageSid)}
              /\ passes' = [passes EXCEPT ![p] = sendReply(pass)]
              /\ UNCHANGED <<sessions, generated, retry>>
           \/ \E e \in FsRejections : Continue(p, catchError(pass, SaveFailed))

\* handleIncomingMessage returns normally
finish(pass) == [DropLocals(pass) EXCEPT !.pc = "done", !.settled = "resolved"]

\* audioProcessor.cleanupTempFile(filename) up to its await of fs.unlink
cleanupTempFile(pass, filename) ==
    [pass EXCEPT !.calls = Append(@, Call("unlink", << >>, "", filename, << >>)), !.pc = "unlink"]

\* a reply send that is held back until the earlier deliveries of the same
\* sender are over
ReplySendSettled_serialized(p) ==
    LET pass == passes[p]
    IN  /\ pass.pc = "sendReply"
        /\ \A q \in Passes : (q < p /\ passes[q].msg.From = pass.msg.From) => passes[q].pc \in {"done", "nopass"}
        /\ \/ Continue(p, IF pass.route = "text" THEN finish(SendSettled(pass, TRUE))
                          ELSE cleanupTempFile(SendSettled(pass, TRUE), AudioFile(pass.msg.MessageSid)))
           \/ \E e \in SdkRejections : Continue(p, catchError(SendSettled(pass, FALSE), SendFailed(e)))

\* the reply send settles
ReplySendSettled(p) ==
    LET pass == passes[p]
    IN  /\ pass.pc = "sendReply"
        /\ \/ Continue(p, IF pass.route = "text" THEN finish(SendSettled(pass, TRUE))
                          ELSE cleanupTempFile(SendSettled(pass, TRUE), AudioFile(pass.msg.MessageSid)))
           \/ \E e \in SdkRejections : Continue(p, catchError(SendSettled(pass, FALSE), SendFailed(e)))

\* a cleanup that removes the synthesized reply of the message as well
UnlinkSettled_replyToo(p) ==
    LET pass == passes[p]
        file == AudioFile(pass.msg.MessageSid)
    IN  /\ pass.pc = "unlink"
        /\ passes' = [passes EXCEPT ![p] = finish(pass)]
        /\ \/ file \in temp /\ temp' = temp \ {file, ResponseFile(pass.msg.MessageSid)}
           \/ temp' = temp
        /\ UNCHANGED <<sessions, generated, retry>>

\* cleanupTempFile without its catch: a failed unlink fails the pass
UnlinkSettled_raise(p) ==
    LET pass == passes[p]
        file == AudioFile(pass.msg.MessageSid)
    IN  /\ pass.pc = "unlink"
        /\ \/ /\ file \in temp /\ temp' = temp \ {file}
              /\ passes' = [passes EXCEPT ![p] = finish(pass)]
           \/ /\ temp' = temp
              /\ \E e \in FsRejections :
                    passes' = [passes EXCEPT ![p] = catchError(pass, [TypeError EXCEPT !.name = "Error", !.message = e.message])]
        /\ UNCHANGED <<sessions, generated, retry>>

\* fs.unlink settles: the file is removed, or the failure is logged and swallowed
UnlinkSettled(p) ==
    LET pass == passes[p]
        file == AudioFile(pass.msg.MessageSid)
    IN  /\ pass.pc = "unlink"
        /\ passes' = [passes EXCEPT ![p] = finish(pass)]
        /\ \/ file \in temp /\ temp' = temp \ {file}
           \/ temp' = temp
        /\ UNCHANGED <<sessions, generated, retry>>

\* the apology send settles
ErrorSendSettled(p) ==
    LET pass == passes[p]
    IN  /\ pass.pc = "sendError"
        /\ \E ok \in BOOLEAN : Continue(p, sendErrorMessageSettled(pass, ok))

(***************************************************************************)
(* DialogflowService.clearSession / cleanupSessions                        *)
(***************************************************************************)
\* a clear that empties the whole registry
clearSession_all(sess, userId) ==
    IF sess[userId] # 0 THEN [u \in DOMAIN sess |-> 0] ELSE sess

clearSession(sess, userId) ==
    IF sess[userId] # 0 THEN [sess EXCEPT ![userId] = 0] ELSE sess

\* getActiveSessionCount(): this.sessions.size
getActiveSessionCount(sess) == Cardinality({u \in DOMAIN sess : sess[u] # 0})

ClearSession(userId) ==
    /\ sessions' = clearSession(sessions, userId)
    /\ UNCHANGED <<passes, generated, temp, retry>>

sessionTimeout == 3600000

\* a cleanup that evicts every session
cleanupSessions_evictAll(sess, maxAge) == [u \in DOMAIN sess |-> 0]

\* cleanupSessions(maxAge = config.app.sessionTimeout): logs the size of the Map
cleanupSessions(sess, maxAge) == sess

CleanupSessions ==
    /\ sessions' = cleanupSessions(sessions, sessionTimeout)
    /\ UNCHANGED <<passes, generated, temp, retry>>

\* the record of a delivery that is over is dropped
Retire(p) ==
    /\ passes[p].pc \in {"done", "nopass"}
    /\ passes' = [passes EXCEPT ![p] = NoPass]
    /\ UNCHANGED <<sessions, generated, temp, retry>>

\* the steps of a pass for a message without an attachment
TextStep(p) ==
    \/ DetectIntentSettled(p)
    \/ ReplySendSettled(p)
    \/ ErrorSendSettled(p)

\* the steps only a voice note takes
VoiceStep(p) ==
    \/ AxiosSettled(p)
    \/ WriteFileSettled(p)
    \/ Recognize1Settled(p)
    \/ Recognize2Settled(p)
    \/ Transcribe2Settled(p)
    \/ ConfirmSendSettled(p)
    \/ SynthesizeSettled(p)
    \/ SaveAudioSettled(p)
    \/ UnlinkSettled(p)

(***************************************************************************)
(* Spec: deliveries whose passes overlap (text and malformed messages).    *)
(* SpecPass: one delivery at a time, every kind of message.                *)
(***************************************************************************)
OverlapMessages ==
    {Message(f, b, << >>, "M1") : f \in Users, b \in {StringBody(Hello), NoBody, ArrayBody}}

Next ==
    \/ \E p \in Passes, msg \in OverlapMessages : WebhookPost(p, msg)
    \/ \E p \in Passes : TextStep(p)
    \/ \E u \in Users : ClearSession(u)
    \/ CleanupSessions

Spec == Init /\ [][Next]_vars

NextPass ==
    \/ \E msg \in Messages : WebhookPost(1, msg)
    \/ TextStep(1)
    \/ VoiceStep(1)
    \/ Retire(1)
    \/ \E u \in Users : ClearSession(u)
    \/ CleanupSessions

SpecPass == Init /\ [][NextPass]_vars

(***************************************************************************)
(* SpecMixed: two deliveries whose passes overlap, a voice note of u1 and  *)
(* a text message of u2, in either order or twice the same.                *)
(***************************************************************************)
MixedMessages ==
    { Message("u1", StringBody(<< >>), <<"1">>, "M1"),
      Message("u2", StringBody(Hello), << >>, "M2") }

OverlapPair == {1, 2}

NextMixed ==
    \/ \E p \in OverlapPair, msg \in MixedMessages : WebhookPost(p, msg)
    \/ \E p \in OverlapPair : TextStep(p)
    \/ \E p \in OverlapPair : VoiceStep(p)

SpecMixed == Init /\ [][NextMixed]_vars

(***************************************************************************)
(* SpecText: one delivery at a time, of text messages in English and in    *)
(* Spanish, with and without accented letters, in lower and upper case.    *)
(***************************************************************************)
ToUpperCase(text) == [i \in DOMAIN text |-> Canonicalize(text[i])]

LowerTexts ==
    { <<"h","o","l","a">>,
      <<"n","o">>,
      <<"n","o","t","a">>,
      <<"d","i_acute","a","s">>,
      <<"e","s","t","a_acute">>,
      <<"e","s","t","a_acute","s">>,
      <<"s","i_acute">>,
      <<"q","u","e_acute"," ","t","a","l">>,
      <<"p","o","r"," ","f","a","v","o","r">>,
      <<"h","e","l","l","o">> }

Texts == LowerTexts \cup {ToUpperCase(t) : t \in LowerTexts}

TextMessages == {Message("u1", StringBody(t), << >>, "M1") : t \in Texts}

NextText ==
    \/ \E msg \in TextMessages : WebhookPost(1, msg)
    \/ TextStep(1)
    \/ Retire(1)

SpecText == Init /\ [][NextText]_vars

(***************************************************************************)
(* SpecRetry: calls of sendMessageWithRetry, one at a time.  A pending     *)
(* messages.create settles and a timer that was set fires.                 *)
(***************************************************************************)
NextRetry ==
    \/ \E to \in Users, message \in {Hello, Hola}, arg \in RetriesArgs : SendMessageWithRetry(to, message, arg)
    \/ AttemptSettled
    \/ TimerFired
    \/ RetryReturned

SpecRetry == Init /\ [][NextRetry]_vars /\ WF_vars(AttemptSettled) /\ WF_vars(TimerFired)

(***************************************************************************)
(* Vocabulary of the properties                                            *)
(***************************************************************************)
Started(pass) == pass.pc \notin {"idle", "nopass"}

AttachmentCount(msg) == IF msg.NumMedia = << >> THEN 0 ELSE ParseInt(msg.NumMedia)

BodyTextPresent(msg) == msg.Body.type = "string" /\ Len(msg.Body.val) > 0

SendsOf(pass, kind) == {i \in DOMAIN pass.sends : pass.sends[i].kind = kind}

CallsOf(pass, op) == {i \in DOMAIN pass.calls : pass.calls[i].op = op}

Attempted(send) == send.status \in {"sent", "failed"}

Contains(text, part) ==
    \E i \in 0..(Len(text) - Len(part)) : SubSeq(text, i + 1, i + Len(part)) = part

ReplyTexts == {extractResponseText(r) : r \in AgentResponses}

(***************************************************************************)
(* C1: handleIncomingMessage never rejects; a pass that is over has either *)
(* sent its reply successfully or has attempted an apology to the sender   *)
(* (whether or not that apology send succeeded).                           *)
(***************************************************************************)
C1_NeverRejects ==
    \A p \in Passes :
        LET pass == passes[p]
        IN  /\ pass.settled # "rejected"
            /\ pass.pc = "done" =>
                 /\ pass.settled = "resolved"
                 /\ \/ \E i \in SendsOf(pass, "reply") : pass.sends[i].status = "sent"
                    \/ \E i \in SendsOf(pass, "apology") :
                          Attempted(pass.sends[i]) /\ pass.sends[i].to = pass.msg.From

\* a pass is over whose apology send failed
C1_Witness ==
    \E p \in Passes :
        /\ passes[p].pc = "done"
        /\ \E i \in SendsOf(passes[p], "apology") : passes[p].sends[i].status = "failed"

(***************************************************************************)
(* C2: every POST to the webhook is answered with status 200 and body      *)
(* "OK".                                                                   *)
(***************************************************************************)
C2_AlwaysOk ==
    \A p \in Passes :
        passes[p].pc # "idle" => passes[p].http = [status |-> 200, body |-> <<"OK">>]

(***************************************************************************)
(* C3: a message goes down the voice path iff its attachment count is > 0  *)
(* (body text or not), else down the text path iff it has body text, else  *)
(* it fails at once with a ValidationError that goes to the failure path.  *)
(***************************************************************************)
C3_Classification ==
    \A p \in Passes :
        LET pass  == passes[p]
            voice == pass.calls # << >> /\ pass.calls[1].op = "axios"
            text  == pass.calls # << >> /\ pass.calls[1].op = "detectIntent"
            invalid == /\ pass.calls = << >>
                       /\ pass.error = ValidationError(<<"Invalid message format">>)
                       /\ pass.sends # << >> /\ pass.sends[1].kind = "apology"
        IN  Started(pass) =>
              /\ voice <=> AttachmentCount(pass.msg) > 0
              /\ text <=> (AttachmentCount(pass.msg) = 0 /\ BodyTextPresent(pass.msg))
              /\ invalid <=> (AttachmentCount(pass.msg) = 0 /\ ~BodyTextPresent(pass.msg))

\* a voice note with a caption is being downloaded
C3_Witness ==
    \E p \in Passes :
        /\ passes[p].pc = "axios"
        /\ AttachmentCount(passes[p].msg) > 0
        /\ BodyTextPresent(passes[p].msg)

(***************************************************************************)
(* C4: on the voice path a successful transcription is followed by exactly *)
(* one confirmation send; no pass sends two confirmations, and a reply of  *)
(* a voice pass is only sent after its confirmation was sent.              *)
(***************************************************************************)
C4_ConfirmationBeforeReply ==
    [][\A p \in Passes :
         LET old == passes[p]
             new == passes'[p]
         IN  /\ Cardinality(SendsOf(new, "confirm")) <= 1
             /\ new.route = "voice" =>
                  \A j \in SendsOf(new, "reply") :
                     \E i \in SendsOf(new, "confirm") : i < j /\ new.sends[i].status = "sent"
             /\ (old.pc \in {"recognize1", "compare"} /\ new.pc \notin {"recognize1", "recognize2", "compare", "sendError"}) =>
                  /\ new.pc = "sendConfirm"
                  /\ new.sends = Append(old.sends,
                                        Send("confirm", old.msg.From, confirmationMessage(new.transcription.text)))
                  /\ new.transcription # NoTranscription
       ]_vars

\* a voice pass is sending its reply, the confirmation before it delivered
C4_Witness ==
    \E p \in Passes :
        /\ passes[p].pc = "sendReply"
        /\ passes[p].route = "voice"
        /\ Len(passes[p].sends) = 2
        /\ passes[p].sends[1].kind = "confirm" /\ passes[p].sends[1].status = "sent"

(***************************************************************************)
(* C5: a message with body text and no attachment whose adapter calls all  *)
(* succeed makes exactly one call, to the intent adapter, with its body    *)
(* and the language of the lexical heuristic (en for "Hello", es for       *)
(* "HOLA"), and exactly one send, of the reply text, to its sender.        *)
(***************************************************************************)
C5_TextRoundTrip ==
    \A p \in Passes :
        LET pass == passes[p]
        IN  (/\ pass.pc = "done"
             /\ pass.error = NoError
             /\ AttachmentCount(pass.msg) = 0
             /\ BodyTextPresent(pass.msg)) =>
              /\ Len(pass.calls) = 1
              /\ pass.calls[1].op = "detectIntent"
              /\ pass.calls[1].text = pass.msg.Body.val
              /\ pass.calls[1].lang = detectLanguage(pass.msg.Body.val)
              /\ pass.msg.Body.val = Hello => pass.calls[1].lang = "en"
              /\ pass.msg.Body.val = Hola => pass.calls[1].lang = "es"
              /\ Len(pass.sends) = 1
              /\ pass.sends[1].kind = "reply"
              /\ pass.sends[1].to = pass.msg.From
              /\ pass.sends[1].status = "sent"
              /\ pass.sends[1].body \in ReplyTexts

\* the pass of "HOLA" is over, its reply delivered
C5_Witness ==
    \E p \in Passes :
        /\ passes[p].pc = "done"
        /\ passes[p].error = NoError
        /\ passes[p].msg.Body = StringBody(Hola)
        /\ AttachmentCount(passes[p].msg) = 0
        /\ Len(passes[p].sends) = 1 /\ passes[p].sends[1].status = "sent"

(***************************************************************************)
(* C6: a message with an empty body and no attachment makes one send, the  *)
(* apology with the validation message, calls no other adapter, and its    *)
(* pass leaves the session registry as it was.                             *)
(***************************************************************************)
C6_InvalidMessage ==
    [][\A p \in Passes :
         LET new == passes'[p]
         IN  (/\ Started(new)
              /\ AttachmentCount(new.msg) = 0
              /\ ~BodyTextPresent(new.msg)) =>
               /\ new.calls = << >>
               /\ new.sessionId = 0
               /\ Len(new.sends) = 1
               /\ new.sends[1].kind = "apology"
               /\ new.sends[1].to = new.msg.From
               /\ new.sends[1].body = <<"X ", "Invalid message format">>
               /\ new.pc = "done" => Attempted(new.sends[1])
               /\ passes[p] # new => sessions' = sessions
       ]_vars

\* the pass of an empty message is over, its one apology delivered
C6_Witness ==
    \E p \in Passes :
        /\ passes[p].pc = "done"
        /\ passes[p].msg.Body = StringBody(<< >>)
        /\ passes[p].msg.NumMedia = <<"0">>
        /\ Len(passes[p].sends) = 1 /\ passes[p].sends[1].status = "sent"

(***************************************************************************)
(* C7: a pass that failed makes exactly one apology send attempt, to the   *)
(* sender; the apology is the last thing the pass sends, also when the     *)
(* apology send itself fails.                                              *)
(***************************************************************************)
C7_OneApology ==
    \A p \in Passes :
        LET pass == passes[p]
            apologies == SendsOf(pass, "apology")
        IN  /\ Cardinality(apologies) <= 1
            /\ apologies # {} <=> pass.error # NoError
            /\ apologies # {} =>
                 /\ apologies = {Len(pass.sends)}
                 /\ pass.sends[Len(pass.sends)].to = pass.msg.From
            /\ (pass.pc = "done" /\ pass.error # NoError) => Attempted(pass.sends[Len(pass.sends)])

\* a pass is over whose confirmation went out and whose apology send failed
C7_Witness ==
    \E p \in Passes :
        /\ passes[p].pc = "done"
        /\ Len(passes[p].sends) = 2
        /\ passes[p].sends[1].kind = "confirm"
        /\ passes[p].sends[2].kind = "apology" /\ passes[p].sends[2].status = "failed"

(***************************************************************************)
(* C8: the apology carries the error's own message iff the error is of an  *)
(* operational kind; for any other error it is the fixed generic text.     *)
(***************************************************************************)
OperationalKinds == {"ValidationError", "AudioProcessingError", "WhatsAppError", "DialogflowError"}

C8_ApologyText ==
    \A p \in Passes :
        LET pass == passes[p]
        IN  \A i \in SendsOf(pass, "apology") :
              /\ Contains(pass.sends[i].body, pass.error.message) <=> pass.error.name \in OperationalKinds
              /\ pass.error.name \notin OperationalKinds => pass.sends[i].body = GenericApology

\* an apology for a TypeError has gone out
C8_Witness ==
    \E p \in Passes :
        /\ passes[p].error.name = "TypeError"
        /\ \E i \in SendsOf(passes[p], "apology") :
              passes[p].sends[i].status = "sent" /\ passes[p].sends[i].body = GenericApology

(***************************************************************************)
(* C9: a sender's session id, once assigned, changes only by a clear of    *)
(* that sender, and every getSessionId for the sender returns the id the   *)
(* registry holds: the one it already held, if it held one.                *)
(***************************************************************************)
C9_SessionStable ==
    [][\A u \in Users :
         /\ (sessions[u] # 0 /\ sessions'[u] # sessions[u]) => ClearSession(u)
         /\ \A p \in Passes :
              LET old == passes[p]
                  new == passes'[p]
              IN  (new.msg.From = u /\ Cardinality(CallsOf(new, "detectIntent")) # Cardinality(CallsOf(old, "detectIntent"))
                   /\ CallsOf(new, "detectIntent") # {}) =>
                     /\ new.sessionId # 0
                     /\ new.sessionId = sessions'[u]
                     /\ sessions[u] # 0 => new.sessionId = sessions[u]
       ]_vars

\* u1 got the first id, u2 the second, and a later message of u1 is at the
\* agent under the first id again
C9_Witness ==
    \E p \in Passes :
        /\ passes[p].pc = "detectIntent"
        /\ passes[p].msg.From = "u1"
        /\ passes[p].sessionId = 1
        /\ sessions["u1"] = 1
        /\ sessions["u2"] = 2

(***************************************************************************)
(* C10: two senders never hold the same session id, and no two passes of   *)
(* different senders address the agent under the same session path.        *)
(***************************************************************************)
C10_DistinctSessions ==
    /\ \A u, v \in Users : (u # v /\ sessions[u] # 0) => sessions[u] # sessions[v]
    /\ \A p, q \in Passes :
         passes[p].msg.From # passes[q].msg.From =>
            \A i \in CallsOf(passes[p], "detectIntent"), j \in CallsOf(passes[q], "detectIntent") :
               passes[p].calls[i].session # passes[q].calls[j].session

\* messages of both senders are at the agent, each under its own session
C10_Witness ==
    /\ sessions["u1"] # 0 /\ sessions["u2"] # 0
    /\ \E p, q \in Passes :
         /\ passes[p].msg.From = "u1" /\ passes[q].msg.From = "u2"
         /\ passes[p].pc = "detectIntent" /\ passes[q].pc = "detectIntent"

(***************************************************************************)
(* C11: a clear of a sender removes that sender's mapping and no other;    *)
(* a clear of a sender without a mapping (as a second clear in a row is)   *)
(* changes nothing; and the count is the number of senders for whom        *)
(* getSessionId would find a mapping: it goes up by one when a mapping is  *)
(* created, down by one when one is cleared, and is otherwise unchanged.   *)
(***************************************************************************)
LiveMappings(sess) == {u \in Users : ~getSessionId(sess, u, uuidv4(MaxUuid + 1)).created}

C11_ClearAndCount ==
    [][/\ \A u \in Users :
            LET after == clearSession(sessions, u)
            IN  /\ after[u] = 0
                /\ \A v \in Users \ {u} : after[v] = sessions[v]
                /\ sessions[u] = 0 => after = sessions
                /\ clearSession(after, u) = after
                /\ ClearSession(u) => sessions' = after
       /\ (sessions' # sessions /\ generated' = generated) =>
            \E u \in Users : sessions[u] # 0 /\ sessions' = [sessions EXCEPT ![u] = 0]
       /\ getActiveSessionCount(sessions') = Cardinality(LiveMappings(sessions'))
       /\ getActiveSessionCount(sessions') - getActiveSessionCount(sessions) =
            IF generated' # generated THEN 1
            ELSE IF sessions' # sessions THEN 0 - 1
            ELSE 0
      ]_vars

\* both senders had a session, that of u1 was cleared and that of u2 is still
\* the one it was given first
C11_Witness ==
    /\ sessions["u1"] = 0
    /\ sessions["u2"] = 1
    /\ generated = 2
    /\ getActiveSessionCount(sessions) = 1

(***************************************************************************)
(* C12: once a recording is downloaded and written, the size validation    *)
(* lets the pass go on to the transcription iff the payload is no longer   *)
(* than the ceiling: a payload of exactly maxAudioSize bytes passes, one   *)
(* of maxAudioSize + 1 bytes fails with the too-large error and is never   *)
(* transcribed.                                                            *)
(***************************************************************************)
TooLarge(error) ==
    /\ error.name = "AudioProcessingError"
    /\ Contains(error.message, <<"Archivo de audio demasiado grande. El tamano maximo es ">>)

C12_SizeCeiling ==
    [][\A p \in Passes :
         LET old == passes[p]
             new == passes'[p]
         IN  (/\ old.pc = "writeFile"
              /\ new.pc # "writeFile"
              /\ new.error \notin {DownloadFailed(e) : e \in FsRejections}) =>
               /\ old.audioBuffer <= maxAudioSize <=> new.pc = "recognize1"
               /\ old.audioBuffer <= maxAudioSize <=> new.error = NoError
               /\ old.audioBuffer = maxAudioSize => new.pc = "recognize1"
               /\ old.audioBuffer = maxAudioSize + 1 =>
                    /\ TooLarge(new.error)
                    /\ new.pc = "sendError"
                    /\ CallsOf(new, "recognize") = {}
      ]_vars

\* a recording of exactly the ceiling is at the speech service
C12_Witness ==
    \E p \in Passes :
        /\ passes[p].pc = "recognize1"
        /\ passes[p].audioBuffer = maxAudioSize
        /\ passes[p].error = NoError

(***************************************************************************)
(* C13: the language detection calls the recognizer first with the         *)
(* configured language; it calls it a second time, with es-ES, iff the     *)
(* first result's confidence is below 0.7; a pass never makes more than    *)
(* two such calls; and the transcription handed on is the result with the  *)
(* higher confidence, the first one when the second is not strictly        *)
(* higher.                                                                 *)
(***************************************************************************)
C13_LanguageDetection ==
    [][\A p \in Passes :
         LET old == passes[p]
             new == passes'[p]
             made == CallsOf(new, "recognize")
         IN  /\ Cardinality(made) <= 2
             /\ \A i \in made :
                   new.calls[i].lang = IF \A j \in made : i <= j THEN "en-US" ELSE "es-ES"
             /\ (old.pc = "recognize1" /\ new.pc \notin {"recognize1", "sendError"}) =>
                   \/ /\ new.pc = "recognize2"
                      /\ new.result.confidence < 70
                      /\ Cardinality(made) = 2
                   \/ /\ new.pc = "sendConfirm"
                      /\ new.transcription.confidence >= 70
                      /\ new.transcription.language \in {"en-US", "es-ES"}
                      /\ Cardinality(made) = 1
             /\ (old.pc = "recognize2" /\ new.pc \notin {"recognize2", "sendError"}) =>
                   new.pc = "compare" /\ new.result = old.result
             /\ (old.pc = "compare" /\ new.pc # "compare") =>
                   /\ new.pc = "sendConfirm"
                   /\ new.calls = old.calls
                   /\ new.transcription.confidence >= old.result.confidence
                   /\ new.transcription.confidence >= old.alternativeResult.confidence
                   /\ new.transcription =
                        IF old.alternativeResult.confidence > old.result.confidence
                        THEN old.alternativeResult ELSE old.result
      ]_vars

\* both calls came back with confidence 0.6 and the first result, in the
\* configured language, is the one being confirmed
C13_Witness ==
    \E p \in Passes :
        /\ passes[p].pc = "sendConfirm"
        /\ Cardinality(CallsOf(passes[p], "recognize")) = 2
        /\ passes[p].transcription.confidence = 60
        /\ passes[p].transcription.language = "en-US"

(***************************************************************************)
(* C14 as claimed: the reply text is the text segments of the agent's      *)
(* response joined by newlines, and whenever the response has no text      *)
(* segment (it is empty, or holds segments of other types only) the one    *)
(* fallback sentence is the reply text.                                    *)
(***************************************************************************)
TextSegments(responseMessages) == SelectSeq(responseMessages, LAMBDA m : m.isText)

HasReplyText(pass) == pass.pc \in {"sendReply", "synthesize", "saveAudio"}

C14_OneFallback ==
    \A p \in Passes :
        LET pass == passes[p]
        IN  HasReplyText(pass) =>
              pass.responseText =
                 IF TextSegments(pass.queryResult) = << >> THEN FallbackNoMessages
                 ELSE Join(Flat(pass.queryResult))

(***************************************************************************)
(* C14 amended: the reply text is the text segments of the response joined *)
(* by newlines; an empty response gives the sentence "I'm sorry, I didn't  *)
(* understand that. Could you rephrase?", and a response that is not empty *)
(* but whose text segments join to the empty string (as when it holds no   *)
(* text segment) gives the other sentence, "I'm here to help you practice  *)
(* English!".                                                              *)
(***************************************************************************)
C14_TwoFallbacks ==
    \A p \in Passes :
        LET pass == passes[p]
            lines == Flat(TextSegments(pass.queryResult))
        IN  HasReplyText(pass) =>
              /\ pass.responseText =
                    IF pass.queryResult = << >> THEN FallbackNoMessages
                    ELSE IF Join(lines) = << >> THEN FallbackNoText
                    ELSE Join(lines)
              /\ Len(TextSegments(pass.queryResult)) = 2 =>
                    pass.responseText = <<"Hi there!", "\n", "How are you?">>
              /\ FallbackNoMessages # FallbackNoText

\* the agent answered with a segment that is not text, and the second
\* sentence is being sent as the reply
C14_Witness ==
    \E p \in Passes :
        /\ passes[p].pc = "sendReply"
        /\ passes[p].queryResult = <<OtherSegment>>
        /\ passes[p].responseText = FallbackNoText
        /\ passes[p].sends[Len(passes[p].sends)].body = FallbackNoText

(***************************************************************************)
(* C15: a call of sendMessageWithRetry makes at most `retries` delivery    *)
(* attempts, all of the same message to the same recipient; only the last  *)
(* attempt made can have succeeded, and then the call resolves with the    *)
(* response of that attempt; after every failed attempt but the last it    *)
(* has waited 1000 ms times the number of the attempt; when all `retries`  *)
(* attempts have failed it rejects with the error of the last one; and     *)
(* every call, once made, settles.                                         *)
(***************************************************************************)
FailedAttempts(r) == {i \in DOMAIN r.sends : r.sends[i].status = "failed"}

C15_Retry ==
    /\ [](LET made == Len(retry.sends)
              failed == FailedAttempts(retry)
          IN  /\ made <= retry.retries
              /\ \A i \in 1..made : retry.sends[i].to = retry.to /\ retry.sends[i].body = retry.message
              /\ \A i \in 1..made : i < made => i \in failed
              /\ Len(retry.errors) = Cardinality(failed)
              /\ retry.waits = [i \in 1..Cardinality(failed \ {retry.retries}) |-> 1000 * i]
              /\ retry.pc = "attempt" => made = retry.attempt /\ retry.sends[made].status = "pending"
              /\ retry.pc = "wait" => made = retry.attempt /\ made \in failed /\ made < retry.retries
              /\ retry.settled = "resolved" =>
                    \/ made >= 1 /\ retry.sends[made].status = "sent" /\ retry.value = made
                    \/ made = 0 /\ retry.retries = 0
              /\ retry.settled = "rejected" =>
                    /\ made = retry.retries
                    /\ failed = 1..made
                    /\ retry.error = retry.errors[made]
              /\ retry.pc = "done" <=> retry.settled \in {"resolved", "rejected"})
    /\ (retry.settled = "pending") ~> (retry.pc = "done")

\* three attempts have failed: the call waited 1000 ms and 2000 ms between
\* them and has rejected with the third error
C15_Witness ==
    /\ retry.settled = "rejected"
    /\ Len(retry.sends) = 3
    /\ retry.waits = <<1000, 2000>>
    /\ retry.error = retry.errors[3]

(***************************************************************************)
(* C16: on the voice path, once the agent has returned a reply (the text   *)
(* then handed to the speech synthesis), that reply text is sent to the    *)
(* sender as a text message by the time the pass is over, whatever becomes *)
(* of the synthesis; the synthesized audio itself is never sent.           *)
(***************************************************************************)
C16_ReplyRegardless ==
    \A p \in Passes :
        LET pass == passes[p]
        IN  (pass.route = "voice" /\ pass.pc = "done") =>
              /\ \A i \in CallsOf(pass, "synthesizeSpeech") :
                    \E j \in SendsOf(pass, "reply") :
                       /\ pass.sends[j].body = pass.calls[i].text
                       /\ pass.sends[j].to = pass.msg.From
                       /\ Attempted(pass.sends[j])
              /\ \A j \in DOMAIN pass.sends : pass.sends[j].kind \in {"confirm", "reply", "apology"}

(***************************************************************************)
(* C17: a pass that wrote its recording into the temp directory has called *)
(* unlink on that file by the time it is over.                             *)
(***************************************************************************)
WroteRecording(pass) ==
    /\ \E i \in CallsOf(pass, "writeFile") : pass.calls[i].file = AudioFile(pass.msg.MessageSid)
    /\ pass.error \notin {DownloadFailed(e) : e \in FsRejections}

C17_RecordingDeleted ==
    \A p \in Passes :
        LET pass == passes[p]
        IN  (pass.pc = "done" /\ WroteRecording(pass)) =>
              \E i \in CallsOf(pass, "unlink") : pass.calls[i].file = AudioFile(pass.msg.MessageSid)

(***************************************************************************)
(* C18: no message sent to a user contains the message text of an          *)
(* exception thrown by an SDK, the HTTP client or the file system.         *)
(***************************************************************************)
ExceptionTexts == {e.message : e \in {r \in SdkRejections \cup FsRejections : ~r.nullish}}

C18_NoInternalText ==
    \A p \in Passes :
        \A i \in DOMAIN passes[p].sends :
            \A text \in ExceptionTexts : ~Contains(passes[p].sends[i].body, text)

(***************************************************************************)
(* C19: the language handed to the agent for a text message is es when the *)
(* text contains one of the marker words as a word (delimited by the ends  *)
(* of the text or by characters that are not letters, digits or _), in any *)
(* letter case, and en when it contains none; and a text and its           *)
(* upper-cased form are classified alike.                                  *)
(***************************************************************************)
IsLetter(c) == IsWordChar(c) \/ c \in Range(AccentLower) \cup Range(AccentUpper)

ContainsMarkerWord(text) ==
    \E w \in spanishPatterns : \E i \in 1..Len(text) :
        /\ i + Len(w) - 1 <= Len(text)
        /\ ToUpperCase(SubSeq(text, i, i + Len(w) - 1)) = ToUpperCase(w)
        /\ i = 1 \/ ~IsLetter(text[i - 1])
        /\ i + Len(w) - 1 = Len(text) \/ ~IsLetter(text[i + Len(w)])

C19_MarkerWords ==
    \A p \in Passes :
        LET pass == passes[p]
        IN  (pass.route = "text" /\ pass.calls # << >>) =>
              /\ pass.calls[1].op = "detectIntent"
              /\ pass.calls[1].lang = IF ContainsMarkerWord(pass.msg.Body.val) THEN "es" ELSE "en"
              /\ detectLanguage(ToUpperCase(pass.msg.Body.val)) = detectLanguage(pass.msg.Body.val)

(***************************************************************************)
(* C20 as claimed: once a pass for a sender is over, the registry maps the *)
(* sender to a session id (as long as no session has been cleared: every   *)
(* id generated is still in the registry).                                 *)
(***************************************************************************)
NoneCleared == generated = getActiveSessionCount(sessions)

C20_CreatedOnFirstMessage ==
    \A p \in Passes :
        (passes[p].pc = "done" /\ NoneCleared) => sessions[passes[p].msg.From] # 0

(***************************************************************************)
(* C20 amended: a sender's session is created when a pass for the sender   *)
(* reaches the intent detection and the registry has no mapping for the    *)
(* sender, and nowhere else: from that step on the registry maps the       *)
(* sender to the id the pass uses; a step of a pass that has not reached   *)
(* the intent detection leaves the registry as it is; and a pass that is   *)
(* over and did reach the intent detection has its sender mapped, as long  *)
(* as no session has been cleared.                                         *)
(***************************************************************************)
ReachedIntent(pass) == CallsOf(pass, "detectIntent") # {}

C20_CreatedAtIntent ==
    [][/\ \A p \in Passes :
            LET old == passes[p]
                new == passes'[p]
                u   == new.msg.From
            IN  /\ (ReachedIntent(new) /\ ~ReachedIntent(old)) =>
                      /\ new.pc = "detectIntent"
                      /\ sessions'[u] # 0
                      /\ new.sessionId = sessions'[u]
                      /\ sessions[u] = 0 =>
                            sessions'[u] = uuidv4(generated + 1) /\ generated' = generated + 1
                      /\ sessions[u] # 0 => sessions' = sessions /\ generated' = generated
                /\ (old # new /\ ~ReachedIntent(new)) => sessions' = sessions
                /\ (new.pc = "done" /\ ReachedIntent(new) /\ generated' = getActiveSessionCount(sessions')) =>
                      sessions'[u] # 0
       /\ \A u \in Users :
            (sessions[u] = 0 /\ sessions'[u] # 0) =>
               \E p \in Passes :
                  /\ passes'[p].msg.From = u
                  /\ ReachedIntent(passes'[p]) /\ ~ReachedIntent(passes[p])
      ]_vars

\* a voice note has got as far as the intent detection, where the first
\* session of the registry was created for its sender
C20_Witness ==
    \E p \in Passes :
        /\ passes[p].route = "voice"
        /\ passes[p].pc = "detectIntent"
        /\ passes[p].sessionId = 1
        /\ sessions[passes[p].msg.From] = 1
        /\ generated = 1

C22_VoiceIntentCall ==
    [][\A p \in Passes :
         LET old == passes[p]
             new == passes'[p]
             n   == Len(old.calls)
         IN  new.route = "voice" =>
               /\ Cardinality(CallsOf(new, "detectIntent")) <= 1
               /\ (ReachedIntent(new) /\ ~ReachedIntent(old)) =>
                     /\ old.pc = "sendConfirm"
                     /\ n >= 3
                     /\ old.calls[1].op = "axios"
                     /\ old.calls[2].op = "writeFile" /\ old.calls[2].file = AudioFile(old.msg.MessageSid)
                     /\ AudioFile(old.msg.MessageSid) \in temp
                     /\ old.audioBuffer <= maxAudioSize
                     /\ \A k \in 3..n : old.calls[k].op = "recognize"
                     /\ old.transcription # NoTranscription
                     /\ Len(new.sends) = 1
                     /\ new.sends[1].kind = "confirm" /\ new.sends[1].status = "sent"
                     /\ new.sends[1].body = confirmationMessage(old.transcription.text)
                     /\ new.calls = Append(old.calls,
                                           Call("detectIntent", old.transcription.text, old.transcription.language,
                                                << >>, getSessionPath(new.sessionId)))
                     /\ new.calls[n + 1].text # old.msg.Body.val
      ]_vars

\* a voice note with the caption "Hello" is at the agent with its transcript
C22_Witness ==
    \E p \in Passes :
        /\ passes[p].route = "voice"
        /\ passes[p].pc = "detectIntent"
        /\ passes[p].msg.Body = StringBody(Hello)
        /\ passes[p].calls[Len(passes[p].calls)].text = passes[p].transcription.text
        /\ passes[p].calls[Len(passes[p].calls)].lang = "es-ES"

(***************************************************************************)
(* C23: when a pass resolves its session id while another pass of the same *)
(* sender holds the id the registry has for the sender, it resolves that   *)
(* same id, generates none and leaves the registry as it is: passes of one *)
(* sender that overlap use one session id.                                 *)
(***************************************************************************)
C23_OverlapSameSession ==
    [][\A p, q \in Passes :
         LET old == passes[p]
             new == passes'[p]
             other == passes[q]
         IN  (/\ p # q
              /\ ReachedIntent(new) /\ ~ReachedIntent(old)
              /\ other.msg.From = new.msg.From
              /\ other.sessionId # 0
              /\ other.sessionId = sessions[other.msg.From]) =>
               /\ new.sessionId = other.sessionId
               /\ new.calls[Len(new.calls)].session = getSessionPath(other.sessionId)
               /\ sessions' = sessions
               /\ generated' = generated
      ]_vars

\* two messages of u1 are at the agent at once, both under the only session
\* id generated so far
C23_Witness ==
    \E p, q \in Passes :
        /\ p # q
        /\ passes[p].msg.From = "u1" /\ passes[q].msg.From = "u1"
        /\ passes[p].pc = "detectIntent" /\ passes[q].pc = "detectIntent"
        /\ passes[p].sessionId = 1 /\ passes[q].sessionId = 1
        /\ generated = 1

ReplySent(pass) == \E i \in SendsOf(pass, "reply") : pass.sends[i].status = "sent"

C25_NoReplyAndApology ==
    \A p \in Passes :
        LET pass == passes[p]
        IN  ReplySent(pass) =>
              /\ SendsOf(pass, "apology") = {}
              /\ pass.error = NoError
              /\ pass.pc \in {"unlink", "done"}
              /\ pass.pc = "done" => pass.settled = "resolved"

\* a voice pass is over, resolved: its reply was sent and the unlink of its
\* recording failed, the file is still there
C25_Witness ==
    \E p \in Passes :
        /\ passes[p].pc = "done"
        /\ passes[p].route = "voice"
        /\ ReplySent(passes[p])
        /\ CallsOf(passes[p], "unlink") # {}
        /\ AudioFile(passes[p].msg.MessageSid) \in temp
        /\ passes[p].settled = "resolved"

(***************************************************************************)
(* C26: every send of a pass, be it a confirmation, a reply or an apology, *)
(* is addressed to the sender of the message that started the pass, also   *)
(* while a pass of another sender is under way.                            *)
(***************************************************************************)
C26_AddressedToSender ==
    \A p \in Passes :
        \A i \in DOMAIN passes[p].sends :
            /\ passes[p].sends[i].to = passes[p].msg.From
            /\ passes[p].sends[i].to \in Users
            /\ passes[p].sends[i].kind \in {"confirm", "reply", "apology"}

\* the voice note of one sender has had its confirmation and is now sending
\* an apology, while the text message of the other sender is sending its reply
C26_Witness ==
    \E p, q \in Passes :
        /\ passes[p].msg.From # passes[q].msg.From
        /\ passes[p].pc = "sendError"
        /\ Len(passes[p].sends) = 2
        /\ passes[p].sends[1].kind = "confirm" /\ passes[p].sends[2].kind = "apology"
        /\ passes[q].pc = "sendReply"
        /\ passes[q].sends[1].kind = "reply"

(***************************************************************************)
(* C27: a pass has its sender in the registry from the step in which it    *)
(* turns to the agent; when the agent call fails, the step that fails the  *)
(* pass leaves the registry and the pass's session id as they are; and a   *)
(* later pass of the sender that turns to the agent while that mapping is  *)
(* in the registry uses the same id.                                       *)
(***************************************************************************)
FailedAtAgent(pass) == pass.error.name = "DialogflowError"

C27_NoRollback ==
    [][\A p \in Passes :
         LET old == passes[p]
             new == passes'[p]
         IN  /\ (ReachedIntent(new) /\ ~ReachedIntent(old)) =>
                   /\ new.pc = "detectIntent"
                   /\ sessions'[new.msg.From] = new.sessionId
                   /\ \A q \in Passes :
                        (/\ q # p
                         /\ FailedAtAgent(passes[q])
                         /\ passes[q].msg.From = new.msg.From
                         /\ sessions[new.msg.From] = passes[q].sessionId) =>
                           new.sessionId = passes[q].sessionId /\ generated' = generated
             /\ (old.pc = "detectIntent" /\ new.pc = "sendError") =>
                   /\ new.error \in {IntentFailed(e) : e \in SdkRejections}
                   /\ new.sessionId = old.sessionId
                   /\ sessions' = sessions
                   /\ generated' = generated
      ]_vars

\* the first message of u1 failed at the agent; the second is at the agent
\* under the id created for the first, the only one generated
C27_Witness ==
    \E p, q \in Passes :
        /\ p < q
        /\ passes[p].msg.From = "u1" /\ passes[q].msg.From = "u1"
        /\ FailedAtAgent(passes[p]) /\ passes[p].pc = "done"
        /\ passes[q].pc = "detectIntent"
        /\ passes[p].sessionId = 1 /\ passes[q].sessionId = 1
        /\ sessions["u1"] = 1
        /\ generated = 1

(***************************************************************************)
(* C28: when the first transcription came back with a confidence below 0.7 *)
(* and the second one fails (the service rejects, or recognizes nothing),  *)
(* the pass fails with the error of the second transcription: the first    *)
(* result is dropped, the pass sends its apology and neither a             *)
(* confirmation nor a reply, and never turns to the agent.                 *)
(***************************************************************************)
SecondTranscriptionErrors == {TranscribeFailed(e) : e \in SdkRejections} \cup {CouldNotTranscribe}

C28_SecondTranscribeFails ==
    [][\A p \in Passes :
         LET old == passes[p]
             new == passes'[p]
         IN  /\ old.pc = "recognize2" =>
                   /\ old.result # NoTranscription
                   /\ old.result.confidence < 70
                   /\ new.pc \in {"recognize2", "compare", "sendError"}
             /\ (old.pc = "recognize2" /\ new.pc = "sendError") =>
                   /\ new.error \in SecondTranscriptionErrors
                   /\ new.result = NoTranscription /\ new.transcription = NoTranscription
                   /\ Len(new.sends) = 1
                   /\ new.sends[1] = Send("apology", old.msg.From, errorMessage(new.error))
             /\ (Cardinality(CallsOf(new, "recognize")) = 2 /\ new.error # NoError
                  /\ SendsOf(new, "confirm") = {}) =>
                   /\ SendsOf(new, "reply") = {}
                   /\ ~ReachedIntent(new)
                   /\ Cardinality(SendsOf(new, "apology")) = 1
      ]_vars

\* a voice pass is over: it transcribed twice, the second time in vain, and
\* all it sent is the apology
C28_Witness ==
    \E p \in Passes :
        /\ passes[p].pc = "done"
        /\ Cardinality(CallsOf(passes[p], "recognize")) = 2
        /\ passes[p].error = TranscribeFailed([nullish |-> FALSE, message |-> <<"ETIMEDOUT">>])
        /\ Len(passes[p].sends) = 1
        /\ passes[p].sends[1].kind = "apology"

Synthesized(files) == {f \in files : f[1] = "response_"}

C30_ResponseFilesKept ==
    [][LET response(q) == <<"response_", passes[q].msg.MessageSid, ".ogg">>
           saved == {q \in Passes : passes[q].pc = "saveAudio" /\ passes'[q].pc = "sendReply"}
           written == {response(q) : q \in saved}
       IN  /\ \A p \in Passes :
                 LET old == passes[p]
                     new == passes'[p]
                 IN  /\ (old.pc = "synthesize" /\ new.pc \notin {"synthesize", "sendError"}) =>
                           /\ new.pc = "saveAudio"
                           /\ new.calls = Append(old.calls, Call("writeFile", << >>, "", response(p), << >>))
                     /\ (old.pc = "unlink" /\ new.pc # "unlink") =>
                           temp' \in {temp, temp \ {<<old.msg.MessageSid, ".ogg">>}}
                     /\ (new.route = "voice" /\ ReplySent(new)) =>
                           <<"response_", new.msg.MessageSid, ".ogg">> \in temp'
           /\ Synthesized(temp') = Synthesized(temp) \cup written
           /\ Cardinality(Synthesized(temp')) >= Cardinality(Synthesized(temp))
           /\ Cardinality(Synthesized(temp')) =
                 Cardinality(Synthesized(temp)) + Cardinality(written \ temp)
      ]_vars

\* the voice notes M1 and M2 have both been answered: the second pass is
\* over, its recording unlinked, and both synthesized replies are there
C30_Witness ==
    \E p \in Passes :
        /\ passes[p].pc = "done"
        /\ passes[p].msg.MessageSid = "M2"
        /\ ReplySent(passes[p])
        /\ AudioFile("M2") \notin temp
        /\ Synthesized(temp) = {ResponseFile("M1"), ResponseFile("M2")}

====
